---- MODULE Spec2Model ----
(***************************************************************************)
(* Model of the mcp-typescript server (src/unnamed/part_000, the full      *)
(* server; src/src/server.ts is the same create-user tool without the two  *)
(* resources).                                                             *)
(*                                                                         *)
(* One server process, its users.json file and the ES-module cache of the  *)
(* process.  `await import('../data/users.json')` goes through the module  *)
(* loader: the first import that succeeds reads and parses the file, every *)
(* later import of the same specifier resolves to the SAME module, whose   *)
(* default export is the same array object.  users.push therefore mutates  *)
(* the array every later import returns.                                   *)
(*                                                                         *)
(* JavaScript objects are TLA+ records; a JSON text is a record            *)
(* [fmt, indent, value] whose value lists an object's members as           *)
(* <<key, value>> pairs in member order.                                   *)
(***************************************************************************)
EXTENDS Integers, Sequences, FiniteSets, TLC

\* Bounds of the model.
MaxCalls == 2     \* create-user invocations that can be in flight together
MaxUsers == 2     \* records the collection is allowed to grow to

Calls == 1..MaxCalls

----------------------------------------------------------------------------
\* Inputs

RequiredFields == {"name", "email", "address", "phone"}

UserA == [name |-> "A", email |-> "a@x.com", address |-> "1 St", phone |-> "555"]
UserB == [name |-> "B", email |-> "b@x.com", address |-> "2 St", phone |-> "556"]

Restrict(f, S) == [k \in S |-> f[k]]

\* Arguments a client can send to create-user: complete ones and ones that
\* miss required fields.
Inputs ==
    { UserA, UserB,
      Restrict(UserB, {"name", "email", "address"}),
      Restrict(UserA, {"email", "address", "phone"}) }

\* Path parameters of users://{userId}/profile, as character sequences.
Digits == <<"0", "1", "2", "3", "4", "5", "6", "7", "8", "9">>

Params ==
    { <<"1">>, <<"0", "2">>, <<"3">>, <<"2", "x">> }

----------------------------------------------------------------------------
\* JSON

KeyOrder == <<"id", "userId", "name", "email", "address", "phone">>

\* The members of an object, in member order.
Members(obj) ==
    LET keys == SelectSeq(KeyOrder, LAMBDA k : k \in DOMAIN obj)
    IN  [i \in 1..Len(keys) |-> <<keys[i], obj[keys[i]]>>]

\* The object a member list denotes.
ObjectOf(members) ==
    [k \in {members[i][1] : i \in 1..Len(members)} |->
        LET i == CHOOSE j \in 1..Len(members) :
                    /\ members[j][1] = k
                    /\ \A l \in (j + 1)..Len(members) : members[l][1] # k
        IN  members[i][2]]

\* JSON.stringify(obj) / JSON.stringify(obj, null, indent) of one object.
JSONstringify(obj, indent) ==
    [fmt |-> "json", indent |-> indent, value |-> Members(obj)]

\* JSON.stringify of an array of objects.
JSONstringifyArray(arr, indent) ==
    [fmt |-> "json", indent |-> indent,
     value |-> [i \in 1..Len(arr) |-> Members(arr[i])]]

\* The array a JSON text of an array of objects parses to.
JSONparseArray(text) ==
    [i \in 1..Len(text.value) |-> ObjectOf(text.value[i])]

PlainText(parts) == [fmt |-> "plain", parts |-> parts]

----------------------------------------------------------------------------
\* State

VARIABLES
    file,       \* ./data/users.json: [state, text]
    cache,      \* the module loader's entry for ../data/users.json
    pc,         \* per call slot: "idle", "loading", "writing"
    props,      \* per call in flight: the arguments of the call
    newUserId,  \* per call in flight: createUser's newUserId
    data,       \* per call in flight: the text handed to fs.writeFile
    out,        \* the response the step just taken sent, if it sent one
    hist        \* what has happened so far (history, not program state)

vars == <<file, cache, pc, props, newUserId, data, out, hist>>

NoText == PlainText(<<>>)
NoOutput == [op |-> "none"]
NoProps == Restrict(UserA, {})

FileOf(users) == [state |-> "ok", text |-> JSONstringifyArray(users, 2)]

\* Collections the users file can hold when the server starts.
InitialUsers ==
    { <<>>,
      <<[id |-> 2] @@ UserB>>,
      <<[id |-> 1] @@ UserA, [id |-> 2] @@ UserB>> }

Init ==
    /\ \E users \in InitialUsers : file = FileOf(users)
    /\ cache = [state |-> "unloaded", users |-> <<>>]
    /\ pc = [c \in Calls |-> "idle"]
    /\ props = [c \in Calls |-> NoProps]
    /\ newUserId = [c \in Calls |-> 0]
    /\ data = [c \in Calls |-> NoText]
    /\ out = NoOutput
    /\ hist = [startEmpty |-> file = FileOf(<<>>),
               edited |-> FALSE,
               failed |-> FALSE,
               overlapped |-> FALSE,
               created |-> <<>>]

----------------------------------------------------------------------------
\* The code's pure steps

\* Variant: phone is optional.
ValidInputPhoneOptional(p) == (RequiredFields \ {"phone"}) \subseteq DOMAIN p

\* inputSchema: the four fields are required.
ValidInput(p) == RequiredFields \subseteq DOMAIN p

\* import(...) resolves: the module is already loaded, or it is loaded now
\* from a file that exists and parses.
ImportResolves ==
    \/ cache.state = "loaded"
    \/ cache.state = "unloaded" /\ file.state = "ok"

\* Variant: every import parses the file anew.
ImportedUsersFresh ==
    IF file.state = "ok" THEN JSONparseArray(file.text) ELSE cache.users

\* .then((m) => m.default): the array of the loaded module.
ImportedUsers ==
    IF cache.state = "loaded" THEN cache.users ELSE JSONparseArray(file.text)

\* The message of the error a rejected import carries.
ImportError ==
    IF cache.state = "unloaded" /\ file.state = "missing"
    THEN "Cannot find module"
    ELSE "Unexpected end of JSON input"

\* What the loader keeps after a rejected import: a module that was not
\* found is looked up again by the next import; a load that failed while
\* parsing may stay in the loader's map and reject every later import.
CacheAfterReject ==
    IF cache.state = "unloaded" /\ file.state = "partial"
    THEN { cache, [state |-> "failed", users |-> <<>>] }
    ELSE { cache }

\* Variant: the largest id in use plus one.
NextUserIdMax(users) ==
    LET ids == {users[i].id : i \in 1..Len(users)} \cup {0}
    IN  (CHOOSE m \in ids : \A k \in ids : k <= m) + 1

\* const newUserId = users.length + 1
NextUserId(users) == Len(users) + 1

\* { id: newUserId, ...user }: the spread members come last and win.
NewUser(id, user) == user @@ [id |-> id]

\* Variant: the record is put in front (unshift).
PushFront(users, user) == <<user>> \o users

\* users.push(...)
Push(users, user) == Append(users, user)

\* The handler's return on success.
SuccessResponse(userId) ==
    [content |-> <<[type |-> "text", text |-> JSONstringify([userId |-> userId], 0)]>>,
     structuredContent |-> [userId |-> userId]]

\* Variant: no catch, the error reaches the protocol layer.
ErrorRethrown(message) == [protocolError |-> message]

\* The handler's catch block.
ErrorResponse(message) ==
    [content |-> <<[type |-> "text",
                    text |-> PlainText(<<"Error creating user: ", message>>)]>>,
     structuredContent |-> [error |-> "Error creating user"]]

\* What the protocol layer answers when the arguments fail the inputSchema
\* (the handler is not called) or when a handler throws.
ProtocolError(message) == [protocolError |-> message]

IsDigit(ch) == \E d \in 1..10 : Digits[d] = ch

DigitValue(ch) == (CHOOSE d \in 1..10 : Digits[d] = ch) - 1

RECURSIVE Decimal(_)
Decimal(s) ==
    IF s = <<>> THEN 0
    ELSE 10 * Decimal(SubSeq(s, 1, Len(s) - 1)) + DigitValue(s[Len(s)])

\* Variant: parseInt(userId), the value of the leading digits.
RECURSIVE LeadingDigits(_)
LeadingDigits(s) ==
    IF s = <<>> \/ ~IsDigit(s[1]) THEN <<>>
    ELSE <<s[1]>> \o LeadingDigits(Tail(s))

ParseInt(s) ==
    IF LeadingDigits(s) = <<>>
    THEN [nan |-> TRUE, val |-> 0]
    ELSE [nan |-> FALSE, val |-> Decimal(LeadingDigits(s))]

\* Number(userId): the empty string is 0, a digit string its decimal value,
\* anything else NaN.
Number(s) ==
    IF \A i \in 1..Len(s) : IsDigit(s[i])
    THEN [nan |-> FALSE, val |-> Decimal(s)]
    ELSE [nan |-> TRUE, val |-> 0]

\* u.id === n
StrictEquals(id, n) == ~n.nan /\ id = n.val

\* users.find((u) => u.id === n): the index of the first match, 0 if none.
Find(users, n) ==
    IF \E i \in 1..Len(users) : StrictEquals(users[i].id, n)
    THEN CHOOSE i \in 1..Len(users) :
            /\ StrictEquals(users[i].id, n)
            /\ \A j \in 1..(i - 1) : ~StrictEquals(users[j].id, n)
    ELSE 0

\* What the users resource returns.
AllUsersResponse(users) ==
    [contents |-> <<[uri |-> <<"users://all">>,
                     text |-> JSONstringifyArray(users, 0),
                     mimeType |-> "application/json"]>>]

\* What the user-profile resource returns.
ProfileResponse(users, userId) ==
    LET i == Find(users, Number(userId))
    IN  IF i = 0
        THEN [contents |-> <<[uri |-> <<"users://", userId, "/profile">>,
                              text |-> PlainText(<<"User not found">>),
                              mimeType |-> "text/plain"]>>]
        ELSE [contents |-> <<[uri |-> <<"users://", userId, "/profile">>,
                              text |-> JSONstringify(users[i], 0),
                              mimeType |-> "application/json"]>>]

----------------------------------------------------------------------------
\* Actions

InFlight(c) == pc[c] # "idle"

\* The slot a new call takes: the lowest one with no call in flight (the
\* slots are interchangeable names of calls).
FreeSlot(c) == ~InFlight(c) /\ \A d \in 1..(c - 1) : InFlight(d)

CollectionSize ==
    IF cache.state = "loaded" THEN Len(cache.users)
    ELSE IF file.state = "ok" THEN Len(file.text.value)
    ELSE 0

\* The call in slot c has returned: its locals are gone.
Return(c) ==
    /\ pc' = [pc EXCEPT ![c] = "idle"]
    /\ props' = [props EXCEPT ![c] = NoProps]
    /\ newUserId' = [newUserId EXCEPT ![c] = 0]
    /\ data' = [data EXCEPT ![c] = NoText]

\* A client calls create-user with arguments that pass the inputSchema: the
\* handler starts and waits for the import.
CallTool(c, p) ==
    /\ FreeSlot(c)
    /\ ValidInput(p)
    /\ CollectionSize + Cardinality({d \in Calls : pc[d] = "loading"}) < MaxUsers
    /\ pc' = [pc EXCEPT ![c] = "loading"]
    /\ props' = [props EXCEPT ![c] = p]
    /\ out' = NoOutput
    /\ hist' = [hist EXCEPT !.overlapped = @ \/ \E d \in Calls \ {c} : InFlight(d)]
    /\ UNCHANGED <<file, cache, newUserId, data>>

\* A client calls create-user with arguments that fail the inputSchema: the
\* call is answered without the handler running.
RejectInput(p) ==
    /\ ~ValidInput(p)
    /\ out' = [op |-> "create-user", args |-> p,
               result |-> ProtocolError("Invalid arguments")]
    /\ UNCHANGED <<file, cache, pc, props, newUserId, data, hist>>

\* createUser resumes after the import: newUserId, push, stringify and the
\* start of fs.writeFile run without interruption.
ImportResolve(c) ==
    /\ pc[c] = "loading"
    /\ ImportResolves
    /\ LET users == ImportedUsers
           id == NextUserId(users)
           pushed == Push(users, NewUser(id, props[c]))
       IN  /\ cache' = [state |-> "loaded", users |-> pushed]
           /\ newUserId' = [newUserId EXCEPT ![c] = id]
           /\ data' = [data EXCEPT ![c] = JSONstringifyArray(pushed, 2)]
    /\ pc' = [pc EXCEPT ![c] = "writing"]
    /\ out' = NoOutput
    /\ UNCHANGED <<file, props, hist>>

\* The import rejects; the handler's catch answers.
ImportReject(c) ==
    /\ pc[c] = "loading"
    /\ ~ImportResolves
    /\ out' = [op |-> "create-user", args |-> props[c],
               result |-> ErrorResponse(ImportError)]
    /\ cache' \in CacheAfterReject
    /\ Return(c)
    /\ hist' = [hist EXCEPT !.failed = TRUE]
    /\ UNCHANGED file

\* fs.writeFile completes: the file holds the text of this call.
WriteFileOK(c) ==
    /\ pc[c] = "writing"
    /\ file' = [state |-> "ok", text |-> data[c]]
    /\ out' = [op |-> "create-user", args |-> props[c],
               result |-> SuccessResponse(newUserId[c])]
    /\ Return(c)
    /\ hist' = [hist EXCEPT !.created = Append(@, <<props[c], newUserId[c]>>)]
    /\ UNCHANGED cache

\* Errors fs.writeFile can reject with: EACCES before the file is opened,
\* ENOSPC after it was truncated.
WriteErrors == {"EACCES", "ENOSPC"}

FileAfterWriteError(err) ==
    IF err = "ENOSPC" THEN [state |-> "partial", text |-> NoText] ELSE file

\* fs.writeFile rejects; the handler's catch answers.
WriteFileFail(c, err) ==
    /\ pc[c] = "writing"
    /\ file' = FileAfterWriteError(err)
    /\ out' = [op |-> "create-user", args |-> props[c],
               result |-> ErrorResponse(err)]
    /\ Return(c)
    /\ hist' = [hist EXCEPT !.failed = TRUE]
    /\ UNCHANGED cache

Reverse(users) == [i \in 1..Len(users) |-> users[Len(users) + 1 - i]]

\* Variant: the handler reverses the array in place before it answers.
ReadAllReversing ==
    /\ ImportResolves
    /\ cache' = [state |-> "loaded", users |-> Reverse(ImportedUsers)]
    /\ out' = [op |-> "users", result |-> AllUsersResponse(Reverse(ImportedUsers))]
    /\ UNCHANGED <<file, pc, props, newUserId, data, hist>>

\* users://all is read.
ReadAll ==
    /\ ImportResolves
    /\ cache' = [state |-> "loaded", users |-> ImportedUsers]
    /\ out' = [op |-> "users", result |-> AllUsersResponse(ImportedUsers)]
    /\ UNCHANGED <<file, pc, props, newUserId, data, hist>>

\* users://{userId}/profile is read.
ReadProfile(userId) ==
    /\ ImportResolves
    /\ cache' = [state |-> "loaded", users |-> ImportedUsers]
    /\ out' = [op |-> "user-profile", args |-> userId,
               result |-> ProfileResponse(ImportedUsers, userId)]
    /\ UNCHANGED <<file, pc, props, newUserId, data, hist>>

\* A resource is read and the import rejects: the resource handlers have no
\* try/catch, the protocol layer answers with the error.
ReadRejected(op) ==
    /\ ~ImportResolves
    /\ cache' \in CacheAfterReject
    /\ out' = [op |-> op, result |-> ProtocolError(ImportError)]
    /\ UNCHANGED <<file, pc, props, newUserId, data, hist>>

\* Someone edits the file outside the server: a record is deleted.
ExternalDelete(i) ==
    /\ file.state = "ok"
    /\ i \in 1..Len(file.text.value)
    /\ file' = [file EXCEPT !.text.value =
                    SubSeq(@, 1, i - 1) \o SubSeq(@, i + 1, Len(@))]
    /\ out' = NoOutput
    /\ hist' = [hist EXCEPT !.edited = TRUE]
    /\ UNCHANGED <<cache, pc, props, newUserId, data>>

\* Someone removes the file.
ExternalRemove ==
    /\ file.state # "missing"
    /\ file' = [state |-> "missing", text |-> NoText]
    /\ out' = NoOutput
    /\ hist' = [hist EXCEPT !.edited = TRUE]
    /\ UNCHANGED <<cache, pc, props, newUserId, data>>

Next ==
    \/ \E c \in Calls, p \in Inputs : CallTool(c, p)
    \/ \E p \in Inputs : RejectInput(p)
    \/ \E c \in Calls : ImportResolve(c)
    \/ \E c \in Calls : ImportReject(c)
    \/ \E c \in Calls : WriteFileOK(c)
    \/ \E c \in Calls, err \in WriteErrors : WriteFileFail(c, err)
    \/ ReadAll
    \/ \E userId \in Params : ReadProfile(userId)
    \/ \E op \in {"users", "user-profile"} : ReadRejected(op)
    \/ \E i \in 1..MaxUsers : ExternalDelete(i)
    \/ ExternalRemove

Spec == Init /\ [][Next]_vars

----------------------------------------------------------------------------
\* Properties

IsCreateOutput == out.op = "create-user" /\ RequiredFields \subseteq DOMAIN out.args

IsSuccess(result) ==
    /\ "structuredContent" \in DOMAIN result
    /\ "userId" \in DOMAIN result.structuredContent

IsError(result) ==
    /\ "structuredContent" \in DOMAIN result
    /\ "error" \in DOMAIN result.structuredContent

Quiet == \A c \in Calls : pc[c] = "idle"

\* Every create-user call so far ran alone and succeeded, and nobody touched
\* the file.
Clean == ~hist.edited /\ ~hist.failed /\ ~hist.overlapped

C2_FileGrowsByOneRecord ==
    [][\A c \in Calls :
          (Clean /\ pc[c] = "writing" /\ pc'[c] = "idle" /\ IsSuccess(out'.result)) =>
             /\ file.state = "ok" /\ file'.state = "ok"
             /\ file'.text.value =
                    Append(file.text.value,
                           Members([id |-> out'.result.structuredContent.userId]
                                       @@ out'.args))]_vars

C2_Witness ==
    /\ Clean /\ hist.startEmpty
    /\ IsCreateOutput /\ IsSuccess(out.result)
    /\ Len(hist.created) = 2
    /\ file.state = "ok" /\ Len(file.text.value) = 2

\* The records a run that started from the empty collection has created, in
\* the order the calls succeeded.
CreatedRecords ==
    [i \in 1..Len(hist.created) |-> [id |-> hist.created[i][2]] @@ hist.created[i][1]]

\* C3: starting from the empty collection, with no call in flight, a read of
\* users://all returns exactly the records of the successful create-user
\* calls so far, the i-th with the fields of the i-th successful call and its
\* id.
C3_ReadAllReturnsCreated ==
    (hist.startEmpty /\ ~hist.edited /\ Quiet
        /\ out.op = "users" /\ "contents" \in DOMAIN out.result) =>
       JSONparseArray(out.result.contents[1].text) = CreatedRecords

\* The integer a path parameter of Params denotes, 0 for one that denotes
\* none (no id is 0).
ParamValue(userId) ==
    CASE userId = <<"1">> -> 1
      [] userId = <<"0", "2">> -> 2
      [] userId = <<"3">> -> 3
      [] OTHER -> 0

\* C4: a read of users://{userId}/profile answers with the first record of
\* the collection whose id is the integer the parameter denotes, as
\* application/json, when there is one, and with the text 'User not found'
\* as text/plain when there is none; either way it is a normal response.
C4_ProfileLookup ==
    (out.op = "user-profile" /\ cache.state = "loaded") =>
       LET users == cache.users
           hits == {i \in 1..Len(users) : users[i].id = ParamValue(out.args)}
           c == out.result.contents[1]
       IN  /\ DOMAIN out.result = {"contents"}
           /\ IF hits = {}
              THEN /\ c.mimeType = "text/plain"
                   /\ c.text = [fmt |-> "plain", parts |-> <<"User not found">>]
              ELSE LET i == CHOOSE h \in hits : \A k \in hits : h <= k
                   IN  /\ c.mimeType = "application/json"
                       /\ c.text.fmt = "json"
                       /\ ObjectOf(c.text.value) = users[i]

C4_Witness ==
    /\ out.op = "user-profile" /\ out.args = <<"0", "2">>
    /\ "contents" \in DOMAIN out.result
    /\ out.result.contents[1].mimeType = "application/json"
    /\ Len(cache.users) = 2

\* C5: a create-user call whose handler ran never ends in a protocol error:
\* it ends in the success response or, when the import or the write failed,
\* in the response with text 'Error creating user: <message>' and
\* structuredContent {error: 'Error creating user'}.
C5_HandlerNeverRaises ==
    IsCreateOutput =>
       \/ /\ IsSuccess(out.result)
          /\ DOMAIN out.result = {"content", "structuredContent"}
       \/ /\ hist.failed
          /\ DOMAIN out.result = {"content", "structuredContent"}
          /\ out.result.structuredContent = [error |-> "Error creating user"]
          /\ out.result.content[1].type = "text"
          /\ out.result.content[1].text.fmt = "plain"
          /\ Len(out.result.content[1].text.parts) = 2
          /\ out.result.content[1].text.parts[1] = "Error creating user: "
          /\ out.result.content[1].text.parts[2]
                \in {"Cannot find module", "Unexpected end of JSON input",
                     "EACCES", "ENOSPC"}

C5_Witness ==
    /\ IsCreateOutput /\ IsError(out.result)
    /\ out.result.content[1].text.parts[2] = "ENOSPC"
    /\ file.state = "partial"

\* C6: a create-user call whose arguments miss a required field is answered
\* with a protocol error in the step that receives it, and that step changes
\* neither the file nor the loaded collection; no such call ever reaches the
\* handler.
C6_RejectedBeforeMutation ==
    [][/\ \A c \in Calls : RequiredFields \subseteq DOMAIN props'[c] \/ pc'[c] = "idle"
       /\ (out'.op = "create-user" /\ ~(RequiredFields \subseteq DOMAIN out'.args)) =>
             /\ "protocolError" \in DOMAIN out'.result
             /\ file' = file
             /\ cache' = cache]_vars

C6_Witness ==
    /\ out.op = "create-user"
    /\ ~(RequiredFields \subseteq DOMAIN out.args)
    /\ "protocolError" \in DOMAIN out.result
    /\ file.state = "ok" /\ Len(file.text.value) = 2
    /\ hist.startEmpty

\* The records a call in flight serialized, without the one it appended.
Snapshot(c) == SubSeq(data[c].value, 1, Len(data[c].value) - 1)

IsPrefix(s, t) == Len(s) <= Len(t) /\ SubSeq(t, 1, Len(s)) = s

C8_ReadAllReturnsFile ==
    (Quiet /\ file.state = "ok"
        /\ out.op = "users" /\ "contents" \in DOMAIN out.result) =>
        out.result.contents[1].text = JSONstringifyArray(JSONparseArray(file.text), 0)

IdsUnique(users) ==
    \A i, j \in 1..Len(users) : users[i].id = users[j].id => i = j

\* C9: when the file started with pairwise distinct ids and nobody edited it,
\* the ids of the loaded collection and of the file are pairwise distinct.
C9_IdsUnique ==
    ~hist.edited =>
        /\ cache.state = "loaded" => IdsUnique(cache.users)
        /\ file.state = "ok" => IdsUnique(JSONparseArray(file.text))

C11_FileOnlyGrows ==
    [][(~hist'.edited /\ ~hist'.failed /\ file.state = "ok") =>
          /\ file'.state = "ok"
          /\ IsPrefix(file.text.value, file'.text.value)]_vars

\* The collection an operation that starts now works on.
VisibleUsers == ImportedUsers

\* C12: a create-user call that ran alone, with no outside edit, and ends
\* with the error response leaves the collection later operations work on as
\* it was before the call: after a failed write it is the collection the
\* call loaded, so the next id is still that collection's count plus one;
\* after a failed import there is still no collection to read.
C12_FailedCallLeavesCollection ==
    [][\A c \in Calls :
          (/\ ~hist.edited
           /\ \A d \in Calls \ {c} : pc[d] = "idle"
           /\ pc[c] # "idle" /\ pc'[c] = "idle"
           /\ IsError(out'.result)) =>
             IF pc[c] = "writing"
             THEN /\ ImportResolves'
                  /\ VisibleUsers' = JSONparseArray([data[c] EXCEPT !.value = Snapshot(c)])
                  /\ NextUserId(VisibleUsers') = Len(Snapshot(c)) + 1
             ELSE ~ImportResolves']_vars

IsReadOutput(o) == o.op \in {"users", "user-profile"}

\* C13: a step that serves users://all or users://{userId}/profile, found or
\* not, leaves the file as it was, leaves every call in flight as it was,
\* and leaves the collection an operation started next works on as it was
\* (an import that resolved before resolves after, to the same records; one
\* that rejected before rejects after).
C13_ReadsAreReadOnly ==
    [][IsReadOutput(out') =>
          /\ file' = file
          /\ <<pc, props, newUserId, data>>' = <<pc, props, newUserId, data>>
          /\ ImportResolves' = ImportResolves
          /\ ImportResolves => VisibleUsers' = VisibleUsers]_vars

\* A profile read that found nothing was served on a collection of two
\* records while a create-user call was in flight.
C13_Witness ==
    /\ out.op = "user-profile"
    /\ "contents" \in DOMAIN out.result
    /\ out.args = <<"3">>
    /\ out.result.contents[1].mimeType = "text/plain"
    /\ Len(cache.users) = 2
    /\ \E c \in Calls : pc[c] = "writing"

====
